---- MODULE Spec2Model ----
(***************************************************************************)
(* Wallet service: the repository-backed WalletService (Exchange, Spend)   *)
(* running concurrent requests against one PostgreSQL database.            *)
(*                                                                         *)
(* Money.  The Go code carries amounts as float64; the wallets.balance,    *)
(* wallet_logs.amount and wallet_logs.platform_amount columns are          *)
(* NUMERIC(20,2).  A money value is modelled as an integer number of half  *)
(* cents (UnitsPerCent units to the cent), so that the product of a        *)
(* whole-cent amount and a ratio such as 2.5 is exact while a value about  *)
(* to be stored is still rounded to the cent, as the column does.          *)
(*                                                                         *)
(* Database.  READ COMMITTED: a transaction sees committed rows and its    *)
(* own writes.  SELECT ... FOR UPDATE waits for the holder of the row lock *)
(* and then reads the committed row; it returns no row, and takes no lock, *)
(* when no committed row exists.  INSERT into wallets waits for another    *)
(* transaction's uncommitted row with the same user_id and fails with a    *)
(* unique violation once such a row is committed.  Sequences (SERIAL ids)  *)
(* are not rolled back.                                                    *)
(***************************************************************************)
EXTENDS Integers, Sequences, FiniteSets, TLC

\* ------------------------------------------------------------------ bounds
MaxCalls == 2          \* Exchange/Spend calls started in one behaviour
MaxFaults == 1         \* storage failures injected in one behaviour

\* --------------------------------------------------------------- constants
UnitsPerCent == 2      \* model resolution below the column scale
CentsPerToken == 100   \* NUMERIC(20, 2)
RatioScale == 2        \* a ratio r is carried as r * RatioScale
DefaultRatio == 5      \* 2.5, the ratio of ('game1', 'gold')

Procs == {1, 2}         \* request goroutines that may overlap
NoProc == 0
Users == {1, 2}
NULL == "<NULL>"

Cents(c) == c * UnitsPerCent
Tokens(t) == Cents(t * CentsPerToken)

\* a value as a NUMERIC(20,2) column stores it: rounded to the cent, ties
\* away from zero
Round2(x) ==
    IF x >= 0
    THEN ((x + (UnitsPerCent \div 2)) \div UnitsPerCent) * UnitsPerCent
    ELSE -((((-x) + (UnitsPerCent \div 2)) \div UnitsPerCent) * UnitsPerCent)

\* ---------------------------------------------------------------- model.go
TransactionExchange == "exchange"
TransactionSpend == "spend"

NoWallet == [present |-> FALSE, id |-> 0, balance |-> 0]
\* the wallet variable of a call that has not made its lock-read yet
NotRead == [present |-> FALSE, id |-> -1, balance |-> 0]
Wallet(id, balance) == [present |-> TRUE, id |-> id, balance |-> balance]

NoLog == [present |-> FALSE, id |-> 0, wallet_id |-> 0, user_id |-> 0,
          game_id |-> NULL, token_type |-> NULL, amount |-> 0,
          platform_amount |-> 0, source |-> NULL, reference_id |-> NULL,
          created_at |-> 0]

\* ------------------------------------------------------ exchange_rates rows
ExchangeRates == {[game_id |-> "game1", token_type |-> "gold",
                   to_platform_ratio |-> DefaultRatio]}

\* ------------------------------------------------------------ request sets
Games == {"game1", "invalid_game"}
TokenTypes == {"gold"}
Sources == {"won"}
Reasons == {"market_purchase"}
ReferenceIDs == {"ORDER-123"}
ExchangeAmounts == {Cents(1), Tokens(100)}
SpendAmounts == {Tokens(50), Tokens(200)}

ExchangeRequests ==
    [op : {TransactionExchange}, UserID : Users, GameID : Games,
     TokenType : TokenTypes, Amount : ExchangeAmounts, Tag : Sources,
     ReferenceID : {NULL}]

SpendRequests ==
    [op : {TransactionSpend}, UserID : Users, GameID : {NULL},
     TokenType : {NULL}, Amount : SpendAmounts, Tag : Reasons,
     ReferenceID : ReferenceIDs]

NoRequest == [op |-> "none", UserID |-> 0, GameID |-> NULL, TokenType |-> NULL,
              Amount |-> 0, Tag |-> NULL, ReferenceID |-> NULL]

NoResult == [kind |-> "none", err |-> "none", value |-> 0, entries |-> <<>>]

VARIABLES
    wallets,        \* committed wallets rows, by user_id
    logs,           \* committed wallet_logs rows, in commit order
    nextWalletID,   \* wallets.id sequence
    nextLogID,      \* wallet_logs.id sequence
    now,            \* database clock (next CURRENT_TIMESTAMP)
    lock,           \* holder of the row lock / uncommitted row of a user
    pc,             \* position of each request in its handler
    req,            \* the request a process is serving
    platformAmount, \* Exchange: req.Amount * exchangeRate.ToPlatformRatio
    wallet,         \* result of GetWalletByUserIDForUpdate
    newWallet,      \* row returned by CreateWallet / Update / SpendFromWallet
    txWallet,       \* uncommitted wallets row written by the transaction
    txLog,          \* uncommitted wallet_logs row written by the transaction
    txStart,        \* transaction timestamp (0: no transaction was begun)
    result,         \* what the call returned
    startWallet,    \* history: committed wallet of the user at call start
    startCommits,   \* history: commits[user] at call start
    commits,        \* history: committed Exchange/Spend transactions per user
    net,            \* history: sum of committed credits minus debits per user
    calls,          \* calls started so far
    faults,         \* storage failures so far
    http            \* the HTTP request in the transport layer, if any

vars == <<wallets, logs, nextWalletID, nextLogID, now, lock, pc, req,
          platformAmount, wallet, newWallet, txWallet, txLog, txStart,
          result, startWallet, startCommits, commits, net, calls, faults,
          http>>

dbVars == <<wallets, logs, nextWalletID, nextLogID, now, lock>>
txVars == <<txWallet, txLog>>
histVars == <<startWallet, startCommits, commits, net>>

\* no HTTP request: the wallet service is called directly
NoHTTP == [pc |-> "none"]

\* the state of a database in which user 1 once exchanged 80 gold
InitService ==
    /\ wallets = [u \in Users |->
                    IF u = 1 THEN Wallet(1, Tokens(200)) ELSE NoWallet]
    /\ logs = <<[present |-> TRUE, id |-> 1, wallet_id |-> 1, user_id |-> 1,
                 game_id |-> "game1", token_type |-> "gold",
                 amount |-> Tokens(80), platform_amount |-> Tokens(200),
                 source |-> TransactionExchange, reference_id |-> NULL,
                 created_at |-> 1]>>
    /\ nextWalletID = 2
    /\ nextLogID = 2
    /\ now = 2
    /\ lock = [u \in Users |-> NoProc]
    /\ pc = [p \in Procs |-> "idle"]
    /\ req = [p \in Procs |-> NoRequest]
    /\ platformAmount = [p \in Procs |-> 0]
    /\ wallet = [p \in Procs |-> NotRead]
    /\ newWallet = [p \in Procs |-> NoWallet]
    /\ txWallet = [p \in Procs |-> NoWallet]
    /\ txLog = [p \in Procs |-> NoLog]
    /\ txStart = [p \in Procs |-> 0]
    /\ result = [p \in Procs |-> NoResult]
    /\ startWallet = [p \in Procs |-> NoWallet]
    /\ startCommits = [p \in Procs |-> 0]
    /\ commits = [u \in Users |-> 0]
    /\ net = [u \in Users |-> IF u = 1 THEN Tokens(200) ELSE 0]
    /\ calls = 0
    /\ faults = 0

Init == InitService /\ http = NoHTTP


\* ------------------------------------------------------------- the database
\* a lookup that forgets the game_id condition
GetExchangeRateByTokenType(gameID, tokenType) ==
    {r \in ExchangeRates : r.token_type = tokenType}

\* QueryGetExchangeRate: the rows of exchange_rates for (game_id, token_type)
GetExchangeRate(gameID, tokenType) ==
    {r \in ExchangeRates : r.game_id = gameID /\ r.token_type = tokenType}

\* the wallets row of user u as p's transaction sees it: its own uncommitted
\* write, else the committed row
Visible(p, u) == IF txWallet[p].present THEN txWallet[p] ELSE wallets[u]

\* a lock on the whole table (a FOR UPDATE without its WHERE user_id = $1)
TableAvailable(p, u) == \A v \in Users : lock[v] \in {NoProc, p}

\* p may lock or write the row of u: nobody else holds it
RowAvailable(p, u) == lock[u] \in {NoProc, p}

Release(p) == [u \in Users |-> IF lock[u] = p THEN NoProc ELSE lock[u]]

\* a log insert that was not made through the transaction survives it
RollbackKeepsLog(p) ==
    /\ wallets' = wallets
    /\ logs' = IF txLog[p].present THEN Append(logs, txLog[p]) ELSE logs
    /\ lock' = Release(p)
    /\ txWallet' = [txWallet EXCEPT ![p] = NoWallet]
    /\ txLog' = [txLog EXCEPT ![p] = NoLog]

\* a balance write that was not made through the transaction survives it
RollbackKeepsBalance(p) ==
    /\ wallets' = IF txWallet[p].present
                  THEN [wallets EXCEPT ![req[p].UserID] = txWallet[p]]
                  ELSE wallets
    /\ logs' = logs
    /\ lock' = Release(p)
    /\ txWallet' = [txWallet EXCEPT ![p] = NoWallet]
    /\ txLog' = [txLog EXCEPT ![p] = NoLog]

\* a rollback that leaves the row lock of the transaction in place
RollbackKeepsLock(p) ==
    /\ wallets' = wallets
    /\ logs' = logs
    /\ lock' = lock
    /\ txWallet' = [txWallet EXCEPT ![p] = NoWallet]
    /\ txLog' = [txLog EXCEPT ![p] = NoLog]

\* PostgresTransaction.Rollback (deferred in Exchange and Spend): the
\* transaction's writes are discarded and its row lock is released
Rollback(p) ==
    /\ wallets' = wallets
    /\ logs' = logs
    /\ lock' = Release(p)
    /\ txWallet' = [txWallet EXCEPT ![p] = NoWallet]
    /\ txLog' = [txLog EXCEPT ![p] = NoLog]

\* "return 0, err"
ReturnError(p, kind, err) ==
    /\ pc' = [pc EXCEPT ![p] = "done"]
    /\ result' = [result EXCEPT ![p] =
                    [kind |-> kind, err |-> err, value |-> 0,
                     entries |-> <<>>]]

\* a statement fails in the database or on the way to it: "return 0, err"
StorageError(p, kind) ==
    /\ faults < MaxFaults
    /\ faults' = faults + 1
    /\ ReturnError(p, kind, "storage")

\* ------------------------------------------------------------ the handlers
\* p is not inside a call
Free(p) == pc[p] \in {"idle", "done"}

\* request goroutines are interchangeable: a new request is served by the
\* lowest-numbered free one
Accepts(p) == Free(p) /\ \A q \in Procs : q < p => ~Free(q)

\* a request goroutine enters WalletService.Exchange
StartExchange(p) ==
    /\ Accepts(p)
    /\ calls < MaxCalls
    /\ \E r \in ExchangeRequests :
          /\ req' = [req EXCEPT ![p] = r]
          /\ startWallet' = [startWallet EXCEPT ![p] = wallets[r.UserID]]
          /\ startCommits' = [startCommits EXCEPT ![p] = commits[r.UserID]]
    /\ pc' = [pc EXCEPT ![p] = "rate"]
    /\ platformAmount' = [platformAmount EXCEPT ![p] = 0]
    /\ wallet' = [wallet EXCEPT ![p] = NotRead]
    /\ newWallet' = [newWallet EXCEPT ![p] = NoWallet]
    /\ txStart' = [txStart EXCEPT ![p] = 0]
    /\ result' = [result EXCEPT ![p] = NoResult]
    /\ calls' = calls + 1
    /\ UNCHANGED <<dbVars, txVars, commits, net, faults>>

\* a request goroutine enters WalletService.Spend
StartSpend(p) ==
    /\ Accepts(p)
    /\ calls < MaxCalls
    /\ \E r \in SpendRequests :
          /\ req' = [req EXCEPT ![p] = r]
          /\ startWallet' = [startWallet EXCEPT ![p] = wallets[r.UserID]]
          /\ startCommits' = [startCommits EXCEPT ![p] = commits[r.UserID]]
    /\ pc' = [pc EXCEPT ![p] = "begin"]
    /\ platformAmount' = [platformAmount EXCEPT ![p] = 0]
    /\ wallet' = [wallet EXCEPT ![p] = NotRead]
    /\ newWallet' = [newWallet EXCEPT ![p] = NoWallet]
    /\ txStart' = [txStart EXCEPT ![p] = 0]
    /\ result' = [result EXCEPT ![p] = NoResult]
    /\ calls' = calls + 1
    /\ UNCHANGED <<dbVars, txVars, commits, net, faults>>

\* platformAmount := req.Amount * exchangeRate.ToPlatformRatio
PlatformAmount(amount, ratio) == (amount * ratio) \div RatioScale

\* Exchange: look up the rate, before any transaction
ExchangeGetRate(p) ==
    /\ pc[p] = "rate"
    /\ LET rows == GetExchangeRate(req[p].GameID, req[p].TokenType) IN
          \/ /\ StorageError(p, "error_db")
             /\ UNCHANGED platformAmount
          \/ /\ rows = {}
             /\ ReturnError(p, "error_rate_not_found",
                            "exchange rate not found")
             /\ UNCHANGED <<platformAmount, faults>>
          \/ /\ \E r \in rows :
                   platformAmount' = [platformAmount EXCEPT ![p] =
                       PlatformAmount(req[p].Amount, r.to_platform_ratio)]
             /\ pc' = [pc EXCEPT ![p] = "begin"]
             /\ UNCHANGED <<result, faults>>
    /\ UNCHANGED <<dbVars, txVars, histVars, req, wallet, newWallet, txStart,
                   calls>>

\* repo.BeginTx
BeginTx(p) ==
    /\ pc[p] = "begin"
    /\ \/ /\ StorageError(p, "error_transaction")
          /\ UNCHANGED <<now, txStart>>
       \/ /\ txStart' = [txStart EXCEPT ![p] = now]
          /\ now' = now + 1
          /\ pc' = [pc EXCEPT ![p] = "lock"]
          /\ UNCHANGED <<result, faults>>
    /\ UNCHANGED <<wallets, logs, nextWalletID, nextLogID, lock, txVars,
                   histVars, req, platformAmount, wallet, newWallet, calls>>

\* a Spend that goes on to create the missing wallet, as Exchange does
NilWalletCreates(op) == FALSE

\* Spend: "if wallet == nil" returns the wallet-not-found error; Exchange
\* creates the wallet instead
NilWalletFails(op) == op = TransactionSpend

\* the lock-read done with QueryGetWalletByUserID: no FOR UPDATE, so it
\* neither waits for the row lock nor takes it
GetWalletByUserIDUnlocked(p) ==
    /\ pc[p] = "lock"
    /\ LET u == req[p].UserID
           isExchange == req[p].op = TransactionExchange IN
          \/ /\ StorageError(p, IF isExchange THEN "error_wallet"
                                 ELSE "error_wallet_fetch")
             /\ Rollback(p)
             /\ UNCHANGED wallet
          \/ /\ wallets[u].present
             /\ wallet' = [wallet EXCEPT ![p] = wallets[u]]
             /\ pc' = [pc EXCEPT ![p] =
                         IF isExchange THEN "update" ELSE "debit"]
             /\ UNCHANGED <<wallets, logs, lock, txVars, result, faults>>
          \/ /\ ~wallets[u].present
             /\ wallet' = [wallet EXCEPT ![p] = NoWallet]
             /\ UNCHANGED faults
             /\ IF ~NilWalletFails(req[p].op)
                THEN /\ pc' = [pc EXCEPT ![p] = "create"]
                     /\ UNCHANGED <<wallets, logs, lock, txVars, result>>
                ELSE /\ ReturnError(p, "error_wallet_not_found",
                                    "wallet not found")
                     /\ Rollback(p)
    /\ UNCHANGED <<nextWalletID, nextLogID, now, histVars, req,
                   platformAmount, newWallet, txStart, calls>>

\* repo.GetWalletByUserIDForUpdate (SELECT ... FOR UPDATE), and what Exchange
\* and Spend do with a nil wallet
GetWalletByUserIDForUpdate(p) ==
    /\ pc[p] = "lock"
    /\ LET u == req[p].UserID
           isExchange == req[p].op = TransactionExchange IN
          \/ /\ StorageError(p, IF isExchange THEN "error_wallet"
                                 ELSE "error_wallet_fetch")
             /\ Rollback(p)
             /\ UNCHANGED wallet
          \/ /\ wallets[u].present
             /\ RowAvailable(p, u)
             /\ lock' = [lock EXCEPT ![u] = p]
             /\ wallet' = [wallet EXCEPT ![p] = wallets[u]]
             /\ pc' = [pc EXCEPT ![p] =
                         IF isExchange THEN "update" ELSE "debit"]
             /\ UNCHANGED <<wallets, logs, txVars, result, faults>>
          \/ /\ ~wallets[u].present
             /\ wallet' = [wallet EXCEPT ![p] = NoWallet]
             /\ UNCHANGED faults
             /\ IF ~NilWalletFails(req[p].op)
                THEN /\ pc' = [pc EXCEPT ![p] = "create"]
                     /\ UNCHANGED <<wallets, logs, lock, txVars, result>>
                ELSE /\ ReturnError(p, "error_wallet_not_found",
                                    "wallet not found")
                     /\ Rollback(p)
    /\ UNCHANGED <<nextWalletID, nextLogID, now, histVars, req,
                   platformAmount, newWallet, txStart, calls>>

\* the insert written as an upsert (ON CONFLICT (user_id) DO UPDATE SET
\* balance = EXCLUDED.balance): a committed row of the user is overwritten
CreateWalletUpsert(p) ==
    /\ pc[p] = "create"
    /\ LET u == req[p].UserID
           id == IF wallets[u].present THEN wallets[u].id ELSE nextWalletID
           row == Wallet(id, Round2(platformAmount[p])) IN
          \/ /\ StorageError(p, "error_create_wallet")
             /\ Rollback(p)
             /\ UNCHANGED <<nextWalletID, newWallet>>
          \/ /\ RowAvailable(p, u)
             /\ txWallet' = [txWallet EXCEPT ![p] = row]
             /\ newWallet' = [newWallet EXCEPT ![p] = row]
             /\ lock' = [lock EXCEPT ![u] = p]
             /\ nextWalletID' = nextWalletID + 1
             /\ pc' = [pc EXCEPT ![p] = "log"]
             /\ UNCHANGED <<wallets, logs, txLog, result, faults>>
    /\ UNCHANGED <<nextLogID, now, histVars, req, platformAmount, wallet,
                   txStart, calls>>

\* the insert into a wallets table without UNIQUE (user_id): it neither
\* waits for nor fails on another row of the user
CreateWalletNoUnique(p) ==
    /\ pc[p] = "create"
    /\ LET u == req[p].UserID
           row == Wallet(nextWalletID, Round2(platformAmount[p])) IN
          \/ /\ StorageError(p, "error_create_wallet")
             /\ Rollback(p)
             /\ UNCHANGED <<nextWalletID, newWallet>>
          \/ /\ txWallet' = [txWallet EXCEPT ![p] = row]
             /\ newWallet' = [newWallet EXCEPT ![p] = row]
             /\ lock' = lock
             /\ nextWalletID' = nextWalletID + 1
             /\ pc' = [pc EXCEPT ![p] = "log"]
             /\ UNCHANGED <<wallets, logs, txLog, result, faults>>
    /\ UNCHANGED <<nextLogID, now, histVars, req, platformAmount, wallet,
                   txStart, calls>>

\* repo.CreateWallet (INSERT INTO wallets), reached when the lock-read
\* returned nil
CreateWallet(p) ==
    /\ pc[p] = "create"
    /\ LET u == req[p].UserID
           row == Wallet(nextWalletID, Round2(platformAmount[p])) IN
          \/ /\ StorageError(p, "error_create_wallet")
             /\ Rollback(p)
             /\ UNCHANGED <<nextWalletID, newWallet>>
          \/ \* wallets.user_id UNIQUE: a committed row of the user exists
             /\ wallets[u].present
             /\ ReturnError(p, "error_create_wallet", "unique violation")
             /\ Rollback(p)
             /\ nextWalletID' = nextWalletID + 1
             /\ UNCHANGED <<newWallet, faults>>
          \/ /\ ~wallets[u].present
             /\ RowAvailable(p, u)
             /\ txWallet' = [txWallet EXCEPT ![p] = row]
             /\ newWallet' = [newWallet EXCEPT ![p] = row]
             /\ lock' = [lock EXCEPT ![u] = p]
             /\ nextWalletID' = nextWalletID + 1
             /\ pc' = [pc EXCEPT ![p] = "log"]
             /\ UNCHANGED <<wallets, logs, txLog, result, faults>>
    /\ UNCHANGED <<nextLogID, now, histVars, req, platformAmount, wallet,
                   txStart, calls>>

\* newBalance := wallet.Balance + platformAmount
NewBalance(balance, platform) == balance + platform

\* repo.UpdateWalletBalance (UPDATE wallets SET balance = $2), reached when
\* the lock-read returned a wallet; a nil row is dereferenced by Exchange
UpdateWalletBalance(p) ==
    /\ pc[p] = "update"
    /\ LET u == req[p].UserID
           cur == Visible(p, u)
           row == Wallet(cur.id, Round2(NewBalance(wallet[p].balance,
                                                   platformAmount[p]))) IN
          \/ /\ StorageError(p, "error_update_wallet")
             /\ Rollback(p)
             /\ UNCHANGED newWallet
          \/ /\ RowAvailable(p, u)
             /\ IF cur.present
                THEN /\ txWallet' = [txWallet EXCEPT ![p] = row]
                     /\ newWallet' = [newWallet EXCEPT ![p] = row]
                     /\ lock' = [lock EXCEPT ![u] = p]
                     /\ pc' = [pc EXCEPT ![p] = "log"]
                     /\ UNCHANGED <<wallets, logs, txLog, result, faults>>
                ELSE /\ ReturnError(p, "panic", "nil wallet")
                     /\ Rollback(p)
                     /\ UNCHANGED <<newWallet, faults>>
    /\ UNCHANGED <<nextWalletID, nextLogID, now, histVars, req,
                   platformAmount, wallet, txStart, calls>>

\* a check that refuses to empty the wallet
CoversStrictly(balance, amount) == balance > amount

\* the funds check, made twice: "wallet.Balance < req.Amount" rejects in
\* Spend and "balance >= $2" guards the UPDATE of QuerySpendFromWallet
Covers(balance, amount) == balance >= amount

\* a debit that checks the funds nowhere: no balance check in Spend and no
\* "balance >= $2" in the UPDATE
SpendFromWalletUnchecked(p) ==
    /\ pc[p] = "debit"
    /\ LET u == req[p].UserID
           cur == Visible(p, u)
           row == Wallet(cur.id, Round2(cur.balance - req[p].Amount)) IN
          \/ /\ StorageError(p, "error_update_wallet")
             /\ Rollback(p)
             /\ UNCHANGED newWallet
          \/ /\ RowAvailable(p, u)
             /\ txWallet' = [txWallet EXCEPT ![p] = row]
             /\ newWallet' = [newWallet EXCEPT ![p] = row]
             /\ lock' = [lock EXCEPT ![u] = p]
             /\ pc' = [pc EXCEPT ![p] = "log"]
             /\ UNCHANGED <<wallets, logs, txLog, result, faults>>
    /\ UNCHANGED <<nextWalletID, nextLogID, now, histVars, req,
                   platformAmount, wallet, txStart, calls>>

\* a Spend without its balance check: the funds are checked by the guard of
\* the UPDATE alone
SpendFromWalletGuardOnly(p) ==
    /\ pc[p] = "debit"
    /\ LET u == req[p].UserID
           amount == req[p].Amount
           cur == Visible(p, u)
           row == Wallet(cur.id, Round2(cur.balance - amount)) IN
          \/ /\ StorageError(p, "error_update_wallet")
             /\ Rollback(p)
             /\ UNCHANGED newWallet
          \/ /\ RowAvailable(p, u)
             /\ IF cur.present /\ Covers(cur.balance, amount)
                THEN /\ txWallet' = [txWallet EXCEPT ![p] = row]
                     /\ newWallet' = [newWallet EXCEPT ![p] = row]
                     /\ lock' = [lock EXCEPT ![u] = p]
                     /\ pc' = [pc EXCEPT ![p] = "log"]
                     /\ UNCHANGED <<wallets, logs, txLog, result, faults>>
                ELSE /\ ReturnError(p, "error_update_wallet",
                                    "insufficient funds")
                     /\ Rollback(p)
                     /\ UNCHANGED <<newWallet, faults>>
    /\ UNCHANGED <<nextWalletID, nextLogID, now, histVars, req,
                   platformAmount, wallet, txStart, calls>>

\* Spend: the balance check on the locked wallet, then repo.SpendFromWallet
\* (UPDATE wallets SET balance = balance - $2 WHERE ... AND balance >= $2)
SpendFromWallet(p) ==
    /\ pc[p] = "debit"
    /\ LET u == req[p].UserID
           amount == req[p].Amount
           cur == Visible(p, u)
           row == Wallet(cur.id, Round2(cur.balance - amount)) IN
          IF ~Covers(wallet[p].balance, amount)
          THEN /\ ReturnError(p, "error_insufficient_funds",
                              "insufficient funds")
               /\ Rollback(p)
               /\ UNCHANGED <<newWallet, faults>>
          ELSE \/ /\ StorageError(p, "error_update_wallet")
                  /\ Rollback(p)
                  /\ UNCHANGED newWallet
               \/ /\ RowAvailable(p, u)
                  /\ IF cur.present /\ Covers(cur.balance, amount)
                     THEN /\ txWallet' = [txWallet EXCEPT ![p] = row]
                          /\ newWallet' = [newWallet EXCEPT ![p] = row]
                          /\ lock' = [lock EXCEPT ![u] = p]
                          /\ pc' = [pc EXCEPT ![p] = "log"]
                          /\ UNCHANGED <<wallets, logs, txLog, result, faults>>
                     ELSE /\ ReturnError(p, "error_update_wallet",
                                         "insufficient funds")
                          /\ Rollback(p)
                          /\ UNCHANGED <<newWallet, faults>>
    /\ UNCHANGED <<nextWalletID, nextLogID, now, histVars, req,
                   platformAmount, wallet, txStart, calls>>

\* a Spend logged as a credit: the amounts without their minus sign
WalletLogUnsigned(p) ==
    [present |-> TRUE, id |-> nextLogID,
     wallet_id |-> IF req[p].op = TransactionExchange
                   THEN newWallet[p].id ELSE wallet[p].id,
     user_id |-> req[p].UserID, game_id |-> req[p].GameID,
     token_type |-> req[p].TokenType,
     amount |-> Round2(req[p].Amount),
     platform_amount |-> IF req[p].op = TransactionExchange
                         THEN Round2(platformAmount[p])
                         ELSE Round2(req[p].Amount),
     source |-> IF req[p].op = TransactionExchange
                THEN TransactionExchange ELSE req[p].Tag,
     reference_id |-> req[p].ReferenceID,
     created_at |-> txStart[p]]

\* the model.WalletLog that Exchange and Spend build, as wallet_logs stores it
WalletLog(p) ==
    IF req[p].op = TransactionExchange
    THEN [present |-> TRUE, id |-> nextLogID, wallet_id |-> newWallet[p].id,
          user_id |-> req[p].UserID, game_id |-> req[p].GameID,
          token_type |-> req[p].TokenType,
          amount |-> Round2(req[p].Amount),
          platform_amount |-> Round2(platformAmount[p]),
          source |-> TransactionExchange, reference_id |-> NULL,
          created_at |-> txStart[p]]
    ELSE [present |-> TRUE, id |-> nextLogID, wallet_id |-> wallet[p].id,
          user_id |-> req[p].UserID, game_id |-> NULL, token_type |-> NULL,
          amount |-> Round2(-req[p].Amount),
          platform_amount |-> Round2(-req[p].Amount),
          source |-> req[p].Tag, reference_id |-> req[p].ReferenceID,
          created_at |-> txStart[p]]

\* repo.CreateWalletLog (INSERT INTO wallet_logs)
CreateWalletLog(p) ==
    /\ pc[p] = "log"
    /\ \/ /\ StorageError(p, "error_log")
          /\ Rollback(p)
          /\ UNCHANGED nextLogID
       \/ /\ txLog' = [txLog EXCEPT ![p] = WalletLog(p)]
          /\ nextLogID' = nextLogID + 1
          /\ pc' = [pc EXCEPT ![p] = "commit"]
          /\ UNCHANGED <<wallets, logs, lock, txWallet, result, faults>>
    /\ UNCHANGED <<nextWalletID, now, histVars, req, platformAmount, wallet,
                   newWallet, txStart, calls>>

\* the signed amount a committed call adds to the balance of its user
Delta(p) ==
    IF req[p].op = TransactionExchange
    THEN Round2(platformAmount[p]) ELSE -req[p].Amount

\* an Exchange that returns the amount credited
ReturnsPlatformAmount(p) ==
    IF req[p].op = TransactionExchange
    THEN Round2(platformAmount[p]) ELSE newWallet[p].balance

\* "return newWallet.Balance, nil" / "return updatedWallet.Balance, nil"
ReturnValue(p) == newWallet[p].balance

\* tx.Commit and the successful return of Exchange / Spend
Commit(p) ==
    /\ pc[p] = "commit"
    /\ LET u == req[p].UserID IN
          \/ /\ StorageError(p, "error_commit")
             /\ Rollback(p)
             /\ UNCHANGED <<commits, net>>
          \/ /\ wallets' = IF txWallet[p].present
                           THEN [wallets EXCEPT ![u] = txWallet[p]]
                           ELSE wallets
             /\ logs' = IF txLog[p].present
                        THEN Append(logs, txLog[p]) ELSE logs
             /\ lock' = Release(p)
             /\ txWallet' = [txWallet EXCEPT ![p] = NoWallet]
             /\ txLog' = [txLog EXCEPT ![p] = NoLog]
             /\ pc' = [pc EXCEPT ![p] = "done"]
             /\ result' = [result EXCEPT ![p] =
                   [kind |-> "success", err |-> "none",
                    value |-> ReturnValue(p), entries |-> <<>>]]
             /\ commits' = [commits EXCEPT ![u] = @ + 1]
             /\ net' = [net EXCEPT ![u] = @ + Delta(p)]
             /\ UNCHANGED faults
    /\ UNCHANGED <<nextWalletID, nextLogID, now, startWallet, startCommits,
                   req, platformAmount, wallet, newWallet, txStart, calls>>

Next ==
    \E p \in Procs :
       \/ StartExchange(p) /\ UNCHANGED http
       \/ StartSpend(p) /\ UNCHANGED http
       \/ ExchangeGetRate(p) /\ UNCHANGED http
       \/ BeginTx(p) /\ UNCHANGED http
       \/ GetWalletByUserIDForUpdate(p) /\ UNCHANGED http
       \/ CreateWallet(p) /\ UNCHANGED http
       \/ UpdateWalletBalance(p) /\ UNCHANGED http
       \/ SpendFromWallet(p) /\ UNCHANGED http
       \/ CreateWalletLog(p) /\ UNCHANGED http
       \/ Commit(p) /\ UNCHANGED http

Spec == Init /\ [][Next]_vars

\* the statements of the call of p, from the rate lookup to the commit
Step(p) ==
    /\ \/ ExchangeGetRate(p)
       \/ BeginTx(p)
       \/ GetWalletByUserIDForUpdate(p)
       \/ CreateWallet(p)
       \/ UpdateWalletBalance(p)
       \/ SpendFromWallet(p)
       \/ CreateWalletLog(p)
       \/ Commit(p)
    /\ UNCHANGED http

\* the database eventually serves every statement that does not have to
\* wait, and every request goroutine keeps running
SpecFair == Spec /\ \A p \in Procs : WF_vars(Step(p))

\* ------------------------------------------------------------ the read paths
DefaultLimit == 50     \* GetWalletLogs: limit := 50

ViewRequests ==
    [op : {"view"}, UserID : Users, GameID : {NULL}, TokenType : {NULL},
     Amount : {0}, Tag : {NULL}, ReferenceID : {NULL}]

HistoryRequests ==
    [op : {"history"}, UserID : Users, GameID : {NULL}, TokenType : {NULL},
     Amount : {0}, Tag : {NULL}, ReferenceID : {NULL}]

\* a read is one statement outside any transaction: it sees the committed
\* rows and is over when it returns, with the rows or with the error of
\* the failed query (only the failed reads are counted against MaxCalls and
\* MaxFaults)
Read(p, r, kind, value, entries) ==
    /\ Accepts(p)
    /\ req' = [req EXCEPT ![p] = r]
    /\ startWallet' = [startWallet EXCEPT ![p] = NoWallet]
    /\ startCommits' = [startCommits EXCEPT ![p] = commits[r.UserID]]
    /\ platformAmount' = [platformAmount EXCEPT ![p] = 0]
    /\ wallet' = [wallet EXCEPT ![p] = NotRead]
    /\ newWallet' = [newWallet EXCEPT ![p] = NoWallet]
    /\ txStart' = [txStart EXCEPT ![p] = 0]
    /\ pc' = [pc EXCEPT ![p] = "done"]
    /\ \/ /\ faults < MaxFaults /\ calls < MaxCalls
          /\ faults' = faults + 1
          /\ calls' = calls + 1
          /\ result' = [result EXCEPT ![p] =
                [kind |-> "error", err |-> "storage", value |-> 0,
                 entries |-> <<>>]]
       \/ /\ result' = [result EXCEPT ![p] =
                [kind |-> kind, err |-> "none", value |-> value,
                 entries |-> entries]]
          /\ UNCHANGED <<calls, faults>>
    /\ UNCHANGED <<dbVars, txVars, commits, net>>

\* a read that sees the uncommitted write of the transaction holding the row
UncommittedRow(u) ==
    IF lock[u] # NoProc /\ txWallet[lock[u]].present
    THEN txWallet[lock[u]] ELSE wallets[u]

\* QueryGetWalletByUserID, run on the connection pool outside any
\* transaction: the committed row of the user
CommittedRow(u) == wallets[u]

\* WalletService.GetWalletByUserID over QueryGetWalletByUserID: the dto.Wallet
\* of the committed row, or nil when the user has none
GetWalletByUserID(p) ==
    \E r \in ViewRequests :
        LET row == CommittedRow(r.UserID) IN
        Read(p, r, IF row.present THEN "success" ELSE "nil",
             IF row.present THEN row.balance ELSE 0, <<>>)

\* the stored source tag reported as the operation
OperationOfSource(log) == log.source

\* GetWalletLogs: operation := "exchange"; if log.Amount < 0 then "spend"
Operation(log) ==
    IF log.amount < 0 THEN TransactionSpend ELSE TransactionExchange

\* the dto.WalletLogEntry built from a wallet_logs row
WalletLogEntry(log) ==
    [GameID |-> log.game_id, TokenType |-> log.token_type,
     Source |-> log.source, OriginalAmount |-> log.amount,
     ConvertedAmount |-> log.platform_amount, Operation |-> Operation(log),
     ReferenceID |-> log.reference_id, CreatedAt |-> log.created_at]

\* the rows in ascending order of created_at
OrderByCreatedAtAsc(rows) ==
    LET RECURSIVE sorted(_)
        sorted(rest) ==
            IF rest = {} THEN <<>>
            ELSE LET first == CHOOSE x \in rest :
                                  \A y \in rest : x.created_at <= y.created_at
                 IN <<first>> \o sorted(rest \ {first})
    IN sorted(rows)

\* ORDER BY created_at DESC
OrderByCreatedAtDesc(rows) ==
    LET RECURSIVE sorted(_)
        sorted(rest) ==
            IF rest = {} THEN <<>>
            ELSE LET first == CHOOSE x \in rest :
                                  \A y \in rest : x.created_at >= y.created_at
                 IN <<first>> \o sorted(rest \ {first})
    IN sorted(rows)

\* QueryGetWalletLogs: SELECT ... WHERE user_id = $1 ORDER BY created_at DESC
\* LIMIT $2 OFFSET 0
QueryGetWalletLogs(userID, limit) ==
    LET rows == {logs[i] : i \in {j \in 1..Len(logs) :
                                      logs[j].user_id = userID}}
        sorted == OrderByCreatedAtDesc(rows)
    IN SubSeq(sorted, 1, IF Len(sorted) < limit THEN Len(sorted) ELSE limit)

\* WalletService.GetWalletLogs
GetWalletLogs(p) ==
    \E r \in HistoryRequests :
        LET rows == QueryGetWalletLogs(r.UserID, DefaultLimit) IN
        Read(p, r, "success", 0,
             [i \in 1..Len(rows) |-> WalletLogEntry(rows[i])])

NextReads ==
    \/ Next
    \/ \E p \in Procs :
          \/ GetWalletByUserID(p) /\ UNCHANGED http
          \/ GetWalletLogs(p) /\ UNCHANGED http

\* the four operations together
SpecReads == Init /\ [][NextReads]_vars

\* ------------------------------------------------------ the transport layer
\* router: every wallet route runs AuthMiddleware, then its handler; the
\* handler calls the wallet service and maps what it returns to a response
StatusOK == 200
StatusBadRequest == 400
StatusUnauthorized == 401
StatusForbidden == 403
StatusNotFound == 404
StatusInternalServerError == 500

Routes == {"GetWallet", "GetWalletLogs", "Exchange", "Spend"}
PathRoutes == {"GetWallet", "GetWalletLogs"}
HeaderUserIds == {"", "not-a-number", "0", "1", "2"}
HeaderEmails == {"", "user@example.com"}
HeaderRoles == {"", "user", "admin"}
PathUserIds == {"not-a-number", "0", "1", "2"}
NoBody == [parses |-> FALSE, UserID |-> 0, Amount |-> 0]
Bodies ==
    {NoBody} \cup [parses : {TRUE}, UserID : {0, 1, 2},
                   Amount : {0, Tokens(100)}]

\* strconv.Atoi on the strings of the model
Atoi(s) ==
    CASE s = "0" -> [ok |-> TRUE, value |-> 0]
      [] s = "1" -> [ok |-> TRUE, value |-> 1]
      [] s = "2" -> [ok |-> TRUE, value |-> 2]
      [] OTHER -> [ok |-> FALSE, value |-> 0]

NoLocals == [user_id |-> 0, user_role |-> ""]
NoCall == [op |-> "none", UserID |-> 0]
NoReturn == [err |-> "none", found |-> FALSE]

HTTPRequests ==
    { [pc |-> "auth", route |-> r, XUserId |-> i, XUserEmail |-> e,
       XUserRole |-> o, param |-> IF r \in PathRoutes THEN x ELSE "",
       body |-> IF r \in PathRoutes THEN NoBody ELSE b,
       locals |-> NoLocals, call |-> NoCall, ret |-> NoReturn,
       status |-> 0, error |-> ""] :
      r \in Routes, i \in HeaderUserIds, e \in HeaderEmails,
      o \in HeaderRoles, x \in PathUserIds, b \in Bodies }

InitHTTP == InitService /\ http \in HTTPRequests

\* c.Status(status).JSON({Success: false, Error: error})
Respond(status, error) ==
    http' = [http EXCEPT !.pc = "sent", !.status = status, !.error = error]

\* the handler calls the wallet service
CallService(op, userID) ==
    http' = [http EXCEPT !.pc = "service",
                         !.call = [op |-> op, UserID |-> userID]]

\* AuthMiddleware
AuthMiddleware ==
    /\ http.pc = "auth"
    /\ LET id == Atoi(http.XUserId) IN
          IF http.XUserId = "" \/ http.XUserEmail = "" \/ http.XUserRole = ""
          THEN Respond(StatusUnauthorized, "Authentication required")
          ELSE IF ~id.ok \/ id.value <= 0
          THEN Respond(StatusUnauthorized, "Invalid user ID")
          ELSE http' = [http EXCEPT
                          !.pc = "handler",
                          !.locals = [user_id |-> id.value,
                                      user_role |-> http.XUserRole]]

\* utils.ValidateStruct on a dto.Wallet: ID required and gt=0, UserID
\* required and gt=0, Balance gte=0
ValidateWallet(w) == w.ID > 0 /\ w.UserID > 0 /\ w.Balance >= 0

\* "if authenticatedUserID != userID && userRole != "admin""
Forbidden(authenticatedUserID, userID, userRole) ==
    authenticatedUserID # userID /\ userRole # "admin"

\* WalletHandler.GetWallet and WalletHandler.GetWalletLogs up to the call
\* of the service: both validate &dto.Wallet{UserID: userID}
PathHandler(route, op, denied) ==
    /\ http.pc = "handler" /\ http.route = route
    /\ LET userID == Atoi(http.param) IN
          IF ~userID.ok
          THEN Respond(StatusBadRequest, "Invalid user ID format")
          ELSE IF ~ValidateWallet([ID |-> 0, UserID |-> userID.value,
                                   Balance |-> 0])
          THEN Respond(StatusBadRequest, "validation")
          ELSE IF Forbidden(http.locals.user_id, userID.value,
                            http.locals.user_role)
          THEN Respond(StatusForbidden, denied)
          ELSE CallService(op, userID.value)

HandlerGetWallet ==
    PathHandler("GetWallet", "view", "You can only access your own wallet")

HandlerGetWalletLogs ==
    PathHandler("GetWalletLogs", "history",
                "You can only access your own wallet logs")

\* utils.ValidateStruct on a dto.ExchangeRequest / dto.SpendRequest, the
\* fields of the body other than user_id and amount being valid
ValidateRequest(userID, amount) == userID > 0 /\ amount > 0

\* WalletHandler.Exchange up to the call of the service
HandlerExchange ==
    /\ http.pc = "handler" /\ http.route = "Exchange"
    /\ LET authenticatedUserID == http.locals.user_id
           \* "req.UserID = authenticatedUserID"
           reqUserID == authenticatedUserID IN
          IF ~http.body.parses
          THEN Respond(StatusBadRequest, "Invalid request body")
          ELSE IF ~ValidateRequest(reqUserID, http.body.Amount)
          THEN Respond(StatusBadRequest, "validation")
          ELSE IF Forbidden(authenticatedUserID, reqUserID,
                            http.locals.user_role)
          THEN Respond(StatusForbidden,
                       "You can only exchange to your own wallet")
          ELSE CallService(TransactionExchange, reqUserID)

\* WalletHandler.Spend up to the call of the service
HandlerSpend ==
    /\ http.pc = "handler" /\ http.route = "Spend"
    /\ LET authenticatedUserID == http.locals.user_id
           reqUserID == http.body.UserID IN
          IF ~http.body.parses
          THEN Respond(StatusBadRequest, "Invalid request body")
          ELSE IF ~ValidateRequest(reqUserID, http.body.Amount)
          THEN Respond(StatusBadRequest, "validation")
          ELSE IF Forbidden(authenticatedUserID, reqUserID,
                            http.locals.user_role)
          THEN Respond(StatusForbidden,
                       "You can only spend from your own wallet")
          ELSE CallService(TransactionSpend, reqUserID)

\* what the wallet service can return to a handler: no error (with or
\* without a wallet, for a view) or one of its errors
ServiceReturns(op) ==
    CASE op = "view" ->
            {[err |-> "none", found |-> TRUE], [err |-> "none", found |-> FALSE],
             [err |-> "storage", found |-> FALSE]}
      [] op = "history" ->
            {[err |-> "none", found |-> TRUE],
             [err |-> "storage", found |-> FALSE]}
      [] op = TransactionExchange ->
            {[err |-> e, found |-> e = "none"] :
                e \in {"none", "exchange rate not found", "unique violation",
                       "storage"}}
      [] op = TransactionSpend ->
            {[err |-> e, found |-> e = "none"] :
                e \in {"none", "wallet not found", "insufficient funds",
                       "storage"}}

\* every error of the service reported as a client error with its text
ClientErrorsAll(op) ==
    {"exchange rate not found", "wallet not found", "insufficient funds",
     "unique violation", "storage"}

\* the error texts a handler looks for with strings.Contains and answers
\* with 400 and the text of the error
ClientErrors(op) ==
    CASE op = TransactionExchange -> {"exchange rate not found"}
      [] op = TransactionSpend -> {"insufficient funds", "wallet not found"}
      [] OTHER -> {}

\* the rest of a handler: the response to what the service returned
HandlerReturn ==
    /\ http.pc = "service"
    /\ \E ret \in ServiceReturns(http.call.op) :
          LET op == http.call.op IN
          http' = [http EXCEPT
             !.pc = "sent",
             !.ret = ret,
             !.status =
                IF ret.err = "none"
                THEN IF op = "view" /\ ~ret.found
                     THEN StatusNotFound ELSE StatusOK
                ELSE IF ret.err \in ClientErrors(op)
                     THEN StatusBadRequest
                     ELSE StatusInternalServerError,
             !.error =
                IF ret.err = "none"
                THEN IF op = "view" /\ ~ret.found
                     THEN "Wallet not found" ELSE ""
                ELSE IF ret.err \in ClientErrors(op)
                     THEN ret.err
                     ELSE "Internal server error"]

svcVars == <<wallets, logs, nextWalletID, nextLogID, now, lock, pc, req,
             platformAmount, wallet, newWallet, txWallet, txLog, txStart,
             result, startWallet, startCommits, commits, net, calls, faults>>

NextHTTP ==
    \/ AuthMiddleware /\ UNCHANGED svcVars
    \/ HandlerGetWallet /\ UNCHANGED svcVars
    \/ HandlerGetWalletLogs /\ UNCHANGED svcVars
    \/ HandlerExchange /\ UNCHANGED svcVars
    \/ HandlerSpend /\ UNCHANGED svcVars
    \/ HandlerReturn /\ UNCHANGED svcVars

SpecHTTP == InitHTTP /\ [][NextHTTP]_vars

\* ------------------------------------------------- the logging middleware
\* a path no route is registered for
Unmatched == "Unmatched"

\* what c.Next() returned to LoggingMiddleware: the handlers and
\* AuthMiddleware return the result of c.Status(...).JSON(...), nil; with no
\* route for the path the router returns an error
NilError == "nil"
ErrNotFound == "Cannot GET /unmatched/path"

\* the requests that reach LoggingMiddleware (registered with app.Use for
\* every path, after RequestIDMiddleware): err is the result of c.Next(),
\* mw the position of LoggingMiddleware, entries what it logged and
\* returned what it returned
LoggedRequests ==
    { [pc |-> "logging", route |-> r, XUserId |-> i, XUserEmail |-> e,
       XUserRole |-> o, param |-> IF r \in PathRoutes THEN x ELSE "",
       body |-> IF r \in {"Exchange", "Spend"} THEN b ELSE NoBody,
       locals |-> NoLocals, call |-> NoCall, ret |-> NoReturn,
       status |-> 0, error |-> "", err |-> NilError, mw |-> "start",
       entries |-> <<>>, returned |-> NULL] :
      r \in Routes \cup {Unmatched}, i \in HeaderUserIds,
      e \in HeaderEmails, o \in HeaderRoles, x \in PathUserIds,
      b \in Bodies }

InitLogging == InitService /\ http \in LoggedRequests

\* LoggingMiddleware up to "err := c.Next()"
LoggingMiddleware ==
    /\ http.pc = "logging" /\ http.mw = "start"
    /\ http' = [http EXCEPT !.pc = "auth", !.mw = "next"]

\* the router past AuthMiddleware when no route matches the path
NoRoute ==
    /\ http.pc = "handler" /\ http.route = Unmatched
    /\ http' = [http EXCEPT !.pc = "sent", !.err = ErrNotFound]

\* zap.String("error", err.Error()): a nil err is dereferenced
DereferencesNil(err) == err = NilError

\* LoggingMiddleware after c.Next(): the log entry, then "return err"
LoggingMiddlewareReturn ==
    /\ http.pc = "sent" /\ http.mw = "next"
    /\ IF DereferencesNil(http.err)
       THEN \* runtime panic: nothing is logged and nothing returned
            http' = [http EXCEPT !.mw = "panic"]
       ELSE http' = [http EXCEPT
                       !.mw = "returned",
                       !.entries = Append(@, [status |-> http.status,
                                              error |-> http.err]),
                       !.returned = http.err]

NextLogging ==
    \/ LoggingMiddleware /\ UNCHANGED svcVars
    \/ NoRoute /\ UNCHANGED svcVars
    \/ LoggingMiddlewareReturn /\ UNCHANGED svcVars
    \/ NextHTTP

SpecLogging == InitLogging /\ [][NextLogging]_vars

\* ------------------------------------------------------------------- types
TypeOK ==
    /\ \A u \in Users : wallets[u].present \in BOOLEAN
    /\ \A p \in Procs : pc[p] \in {"idle", "rate", "begin", "lock", "create",
                                   "update", "debit", "log", "commit", "done"}
    /\ calls \in 0 .. MaxCalls
    /\ faults \in 0 .. MaxFaults

\* ------------------------------------------------------- claim vocabulary
Done(p) == pc[p] = "done"
IsExchange(p) == req[p].op = TransactionExchange
IsSpend(p) == req[p].op = TransactionSpend
Succeeded(p) == Done(p) /\ result[p].kind = "success"
Faulted(p) == Done(p) /\ result[p].err = "storage"
InsufficientFunds(p) == Done(p) /\ result[p].err = "insufficient funds"
\* p's transaction is open and its lock-read returned the wallet of u
HoldsWallet(p, u) ==
    /\ pc[p] \in {"update", "debit", "log", "commit"}
    /\ req[p].UserID = u
    /\ wallet[p].present
\* the (game_id, token_type) pair of the request has an exchange_rates row
Configured(r) ==
    \E x \in ExchangeRates :
        x.game_id = r.GameID /\ x.token_type = r.TokenType
\* amount * ratio of a configured request, unrounded
Credit(r) ==
    LET x == CHOOSE y \in ExchangeRates :
                 y.game_id = r.GameID /\ y.token_type = r.TokenType
    IN (r.Amount * x.to_platform_ratio) \div RatioScale
\* the committed log entries of user u
LogsOf(u) == {i \in 1..Len(logs) : logs[i].user_id = u}

\* ------------------------------------------------------------------ C1
\* C1: in every reachable state every committed wallet balance is >= 0, and
\* a Spend is never clamped: one that succeeded debited its whole amount from
\* the balance it read under the lock, and that balance covered the amount.
C1_BalanceNeverNegative ==
    /\ \A u \in Users : wallets[u].present => wallets[u].balance >= 0
    /\ \A p \in Procs :
          (Succeeded(p) /\ IsSpend(p)) =>
              /\ wallet[p].balance >= req[p].Amount
              /\ result[p].value = wallet[p].balance - req[p].Amount

\* one Spend emptied the wallet and a later Spend of the user was rejected
C1_Witness ==
    \E p, q \in Procs :
        /\ p # q /\ IsSpend(p) /\ IsSpend(q)
        /\ req[p].UserID = req[q].UserID
        /\ Succeeded(p) /\ InsufficientFunds(q)
        /\ wallets[req[p].UserID].balance = 0

\* ------------------------------------------------------------------ C2
\* the two calls were issued against the same committed balance of the same
\* wallet, each amount is within that balance, together they exceed it, and
\* neither met a storage failure
RacingSpends(p, q) ==
    /\ p # q /\ Done(p) /\ Done(q) /\ IsSpend(p) /\ IsSpend(q)
    /\ req[p].UserID = req[q].UserID
    /\ startCommits[p] = startCommits[q]
    /\ startWallet[p].present
    /\ req[p].Amount <= startWallet[p].balance
    /\ req[q].Amount <= startWallet[p].balance
    /\ req[p].Amount + req[q].Amount > startWallet[p].balance
    /\ ~Faulted(p) /\ ~Faulted(q)

C3_Atomic ==
    [][ /\ (wallets' # wallets) <=> (logs' # logs)
        /\ \A p \in Procs :
              (pc[p] # "done" /\ pc'[p] = "done") =>
                  IF result'[p].kind = "success"
                  THEN /\ wallets'[req[p].UserID] # wallets[req[p].UserID]
                       /\ Len(logs') = Len(logs) + 1
                       /\ logs'[Len(logs')].user_id = req[p].UserID
                       /\ logs'[Len(logs')].id = txLog[p].id
                  ELSE /\ wallets' = wallets
                       /\ logs' = logs
                       /\ txWallet'[p] = NoWallet
                       /\ txLog'[p] = NoLog
                       /\ \A u \in Users : lock'[u] # p
      ]_vars

\* a call failed at its commit, after the balance write and the log insert,
\* and the committed wallet of its user is the one it started from
C3_Witness ==
    \E p \in Procs :
        /\ Done(p) /\ result[p].kind = "error_commit"
        /\ newWallet[p].present
        /\ wallets[req[p].UserID] = startWallet[p]
        /\ commits[req[p].UserID] = startCommits[p]
        /\ \A i \in LogsOf(req[p].UserID) : logs[i].id < nextLogID - 1

RacingCreates(p, q) ==
    /\ p # q /\ Done(p) /\ Done(q) /\ IsExchange(p) /\ IsExchange(q)
    /\ req[p].UserID = req[q].UserID
    /\ wallet[p] = NoWallet /\ wallet[q] = NoWallet
    /\ ~Faulted(p) /\ ~Faulted(q)

\* C5: of two first Exchange calls of a user that both find no wallet,
\* exactly one creates the wallet and commits; the other fails on the
\* uniqueness of user_id, is rolled back and is not retried: the wallet
\* holds the winner's credit only and the log the winner's entry only.
C5_OneCreateWins ==
    \A p, q \in Procs :
        RacingCreates(p, q) =>
            /\ Succeeded(p) # Succeeded(q)
            /\ ~Succeeded(q) =>
                /\ Succeeded(p)
                /\ result[q].kind = "error_create_wallet"
                /\ result[q].err = "unique violation"
                /\ wallets[req[p].UserID].present
                /\ wallets[req[p].UserID].balance = Round2(Credit(req[p]))
                /\ Cardinality(LogsOf(req[p].UserID)) = 1
                /\ \A i \in LogsOf(req[p].UserID) :
                      /\ logs[i].wallet_id = newWallet[p].id
                      /\ logs[i].platform_amount = Round2(Credit(req[p]))

C5_Witness ==
    \E p, q \in Procs :
        /\ RacingCreates(p, q)
        /\ Succeeded(p)
        /\ result[q].err = "unique violation"
        /\ req[p].Amount # req[q].Amount

\* ------------------------------------------------------------------ C6
\* C6: a Spend whose amount exceeds the current balance of the wallet always
\* fails with the insufficient-funds error: the step it takes with the
\* wallet locked and the committed balance below the amount ends the call
\* with that error and leaves the committed wallets and log unchanged, and
\* no Spend succeeds on a balance below its amount.
C6_InsufficientFunds ==
    [][ \A p \in Procs :
          LET u == req[p].UserID IN
          /\ ( /\ pc[p] = "debit" /\ pc'[p] # "debit"
               /\ wallets[u].balance < req[p].Amount )
             => /\ pc'[p] = "done"
                /\ result'[p].err = "insufficient funds"
                /\ result'[p].value = 0
                /\ wallets' = wallets
                /\ logs' = logs
                /\ txWallet'[p] = NoWallet /\ txLog'[p] = NoLog
          /\ ( /\ pc[p] = "commit" /\ IsSpend(p)
               /\ result'[p].kind = "success" )
             => wallets[u].balance >= req[p].Amount
      ]_vars

\* a Spend of more than the balance was rejected and the wallet is the one
\* the call started from
C6_Witness ==
    \E p \in Procs :
        /\ IsSpend(p) /\ InsufficientFunds(p)
        /\ result[p].kind = "error_insufficient_funds"
        /\ wallet[p].present
        /\ wallet[p].balance < req[p].Amount
        /\ wallets[req[p].UserID] = wallet[p]
        /\ wallets[req[p].UserID].balance > 0

\* ------------------------------------------------------------------ C7
\* C7: an Exchange for a (game, token type) pair with no configured rate
\* fails with the rate-not-found error (or with the error of the failed rate
\* lookup) in the step of the lookup itself: no transaction is opened and
\* nothing in the database changes.
C7_RateNotFound ==
    [][ \A p \in Procs :
          ( /\ IsExchange(p) /\ ~Configured(req[p])
            /\ pc[p] # "done" /\ pc'[p] # pc[p] )
          => /\ pc[p] = "rate"
             /\ pc'[p] = "done"
             /\ result'[p].err \in {"exchange rate not found", "storage"}
             /\ result'[p].err = "exchange rate not found" =>
                    result'[p].kind = "error_rate_not_found"
             /\ result'[p].value = 0
             /\ txStart'[p] = 0
             /\ UNCHANGED <<dbVars, txVars>>
      ]_vars

\* an Exchange for an unconfigured pair ended with the rate-not-found error
\* and began no transaction
C7_Witness ==
    \E p \in Procs :
        /\ Done(p) /\ IsExchange(p) /\ ~Configured(req[p])
        /\ result[p].err = "exchange rate not found"
        /\ txStart[p] = 0
        /\ wallet[p] = NotRead

\* ------------------------------------------------------------------ C8
\* C8: a Spend for a user with no wallet fails with the wallet-not-found
\* error (or with the error of the failed lock-read) in the step of the
\* lock-read: the transaction is rolled back, no wallet is created and no
\* log entry is written; a Spend never reaches the creation of a wallet.
C8_WalletNotFound ==
    [][ \A p \in Procs :
          LET u == req[p].UserID IN
          /\ ( /\ IsSpend(p) /\ pc[p] = "lock" /\ pc'[p] # "lock"
               /\ ~wallets[u].present )
             => /\ pc'[p] = "done"
                /\ result'[p].err \in {"wallet not found", "storage"}
                /\ result'[p].err = "wallet not found" =>
                       result'[p].kind = "error_wallet_not_found"
                /\ result'[p].value = 0
                /\ wallets' = wallets
                /\ logs' = logs
                /\ nextWalletID' = nextWalletID
                /\ txWallet'[p] = NoWallet /\ txLog'[p] = NoLog
                /\ lock'[u] # p
          /\ IsSpend(p) => pc'[p] # "create"
      ]_vars

\* a Spend for a user without a wallet ended with the wallet-not-found
\* error after beginning a transaction, and the user still has no wallet
C8_Witness ==
    \E p \in Procs :
        /\ Done(p) /\ IsSpend(p)
        /\ result[p].err = "wallet not found"
        /\ txStart[p] > 0
        /\ wallet[p] = NoWallet
        /\ ~wallets[req[p].UserID].present
        /\ LogsOf(req[p].UserID) = {}

\* ------------------------------------------------------------------ C9
\* the balance the Exchange read under the lock, 0 when it found no wallet
PriorBalance(p) == IF wallet[p].present THEN wallet[p].balance ELSE 0

C10_ReturnsPlatformAmount ==
    \A p \in Procs :
        (Succeeded(p) /\ IsExchange(p)) =>
            result[p].value = Round2(platformAmount[p])

IsHistory(p) == Done(p) /\ req[p].op = "history" /\ result[p].err = "none"
IsView(p) == Done(p) /\ req[p].op = "view" /\ result[p].err = "none"
\* the committed wallet_logs row of user u an entry of a history was built
\* from (created_at identifies it among the rows of one user)
StoredLog(u, e) ==
    CHOOSE l \in {logs[i] : i \in LogsOf(u)} : l.created_at = e.CreatedAt

\* C12: in a history returned by GetWalletLogs the operation tag of every
\* entry depends on the sign of the stored amount only: "spend" when the
\* stored amount is negative, "exchange" otherwise, whatever the stored
\* source tag and whether or not the row has a game id.
C12_OperationBySign ==
    \A p \in Procs :
        IsHistory(p) =>
            \A i \in 1..Len(result[p].entries) :
                LET e == result[p].entries[i]
                    l == StoredLog(req[p].UserID, e)
                IN e.Operation = IF l.amount < 0 THEN TransactionSpend
                                 ELSE TransactionExchange

\* a history with an exchange entry and a spend entry whose stored source
\* tag is not "spend"
C12_Witness ==
    \E p \in Procs :
        /\ IsHistory(p)
        /\ \E i, j \in 1..Len(result[p].entries) :
              /\ result[p].entries[i].Operation = TransactionExchange
              /\ result[p].entries[i].OriginalAmount > 0
              /\ result[p].entries[j].Operation = TransactionSpend
              /\ result[p].entries[j].OriginalAmount < 0
              /\ result[p].entries[j].Source # TransactionSpend
              /\ result[p].entries[j].GameID = NULL

\* ------------------------------------------------------------------ C13
\* the place in commit order (the order of taking effect) of the row an
\* entry of a history of user u was built from
EffectOrder(u, e) ==
    CHOOSE i \in LogsOf(u) : logs[i].created_at = e.CreatedAt

\* every entry of the history of p is a committed row of the requested user
\* and the history holds all the rows committed when it was read
OnlyRequestedUser(p) ==
    LET u == req[p].UserID
        es == result[p].entries IN
    /\ \A i \in 1..Len(es) :
          \E k \in LogsOf(u) :
              WalletLogEntry(logs[k]) = es[i]
    /\ Len(es) = Cardinality(LogsOf(u)) - (commits[u] - startCommits[p])

\* C13 as stated: only the requested user's entries, and an entry of an
\* operation that took effect later never appears after an entry of an
\* operation that took effect earlier.
C13_AsStated ==
    \A p \in Procs :
        IsHistory(p) =>
            /\ OnlyRequestedUser(p)
            /\ \A i, j \in 1..Len(result[p].entries) :
                  i < j => EffectOrder(req[p].UserID, result[p].entries[i])
                           > EffectOrder(req[p].UserID, result[p].entries[j])

\* C13: GetWalletLogs returns only the requested user's entries, ordered by
\* created_at descending, and created_at is the time at which the
\* transaction of the operation began: an entry of an operation that began
\* later never appears after an entry of one that began earlier.
C13_OrderedByCreatedAt ==
    \A p \in Procs :
        IsHistory(p) =>
            /\ OnlyRequestedUser(p)
            /\ \A i, j \in 1..Len(result[p].entries) :
                  i < j => result[p].entries[i].CreatedAt
                           > result[p].entries[j].CreatedAt

\* a history of three entries in which an operation that took effect
\* earlier than another, but began later, comes first
C13_Witness ==
    \E p \in Procs :
        /\ IsHistory(p)
        /\ Len(result[p].entries) = 3
        /\ \E i, j \in 1..Len(result[p].entries) :
              /\ i < j
              /\ EffectOrder(req[p].UserID, result[p].entries[i])
                 < EffectOrder(req[p].UserID, result[p].entries[j])

\* ------------------------------------------------------------------ C14
IsMutation(r) == r.op \in {TransactionExchange, TransactionSpend}

\* C14: the log only grows and its entries never change: every step leaves
\* the committed entries as they were and appends at most one; the step
\* that ends an Exchange or a Spend in success appends exactly one entry,
\* that of the call, the step that ends one in failure appends none, and
\* nothing else (a read, a step inside a transaction) appends at all.
C14_LogAppendOnly ==
    [][ /\ Len(logs') \in {Len(logs), Len(logs) + 1}
        /\ SubSeq(logs', 1, Len(logs)) = logs
        /\ \A p \in Procs :
              (pc[p] # "done" /\ pc'[p] = "done" /\ IsMutation(req'[p])) =>
                  IF result'[p].kind = "success"
                  THEN /\ logs' = Append(logs, txLog[p])
                       /\ txLog[p].present
                       /\ txLog[p].user_id = req[p].UserID
                       /\ \A i \in 1..Len(logs) : logs[i].id # txLog[p].id
                  ELSE logs' = logs
        /\ logs' # logs =>
              \E p \in Procs :
                  /\ pc[p] = "commit" /\ pc'[p] = "done"
                  /\ result'[p].kind = "success"
      ]_vars

\* one call failed at its commit with its log insert made, another
\* committed, a history was read, and the log holds the entry it started
\* with and the entry of the committed call
C14_Witness ==
    /\ Len(logs) = 2
    /\ nextLogID = 4
    /\ logs[1].id = 1 /\ logs[1].created_at = 1
    /\ \E p, q \in Procs :
          /\ Succeeded(q) /\ IsMutation(req[q])
          /\ IsHistory(p) /\ Len(result[p].entries) > 0

\* ------------------------------------------------------------------ C15
\* C15: a wallet becomes present only in the step that commits an Exchange
\* of its user, and a present wallet stays present, the same row: no step of
\* a Spend, a view, a history or a failing Exchange creates or deletes one.
C15_WalletLifecycle ==
    [][ \A u \in Users :
          /\ wallets[u].present =>
                /\ wallets'[u].present
                /\ wallets'[u].id = wallets[u].id
          /\ (~wallets[u].present /\ wallets'[u].present) =>
                \E p \in Procs :
                    /\ IsExchange(p) /\ req[p].UserID = u
                    /\ pc[p] = "commit" /\ pc'[p] = "done"
                    /\ result'[p].kind = "success"
                    /\ wallet[p] = NoWallet
      ]_vars

\* the wallet of a user was created by an Exchange after a view of the user
\* had found none
C15_Witness ==
    \E p, q \in Procs : \E u \in Users :
        /\ wallets[u].present
        /\ Succeeded(p) /\ IsExchange(p) /\ req[p].UserID = u
        /\ wallet[p] = NoWallet
        /\ IsView(q) /\ req[q].UserID = u /\ result[q].kind = "nil"

\* ------------------------------------------------------------------ C16
\* the committed log entries of user u, in commit order
LogSeqOf(u) == SelectSeq(logs, LAMBDA l : l.user_id = u)

\* p is at a statement that needs the wallets row of its user
AtRowStatement(p) == pc[p] \in {"lock", "create", "update", "debit"}

\* the statement p is at can be executed now, without a storage failure
CanProceed(p) ==
    ENABLED ( /\ \/ GetWalletByUserIDForUpdate(p)
                 \/ CreateWallet(p)
                 \/ UpdateWalletBalance(p)
                 \/ SpendFromWallet(p)
              /\ faults' = faults )

\* the step is a step of the call p is serving
StepOf(p) ==
    \/ pc'[p] # pc[p]
    \/ req'[p] # req[p]
    \/ result'[p] # result[p]

\* C16: operations of different users are independent: an Exchange or Spend
\* waits at a statement only while a call for the same user holds the row
\* of that user, a row is held only by a call for its user, and a step of a
\* call for user U leaves the wallet and the log entries of every other
\* user V unchanged.
C16_UsersIndependent ==
    [][ /\ \A p \in Procs :
              AtRowStatement(p) =>
                  \/ CanProceed(p)
                  \/ \E q \in Procs \ {p} :
                        /\ lock[req[p].UserID] = q
                        /\ req[q].UserID = req[p].UserID
        /\ \A u \in Users :
              lock[u] # NoProc => req[lock[u]].UserID = u
        /\ \A p \in Procs :
              StepOf(p) =>
                  \A v \in Users \ {req'[p].UserID} :
                      /\ wallets'[v] = wallets[v]
                      /\ LogSeqOf(v)' = LogSeqOf(v)
                      /\ lock'[v] = lock[v]
      ]_vars

\* two transactions of different users hold their rows at the same time,
\* both with their writes made
C16_Witness ==
    \E p, q \in Procs :
        /\ req[p].UserID # req[q].UserID
        /\ pc[p] = "commit" /\ pc[q] = "commit"
        /\ lock[req[p].UserID] = p /\ lock[req[q].UserID] = q
        /\ txWallet[p].present /\ txWallet[q].present

\* ------------------------------------------------------------------ C17
\* what a view that returned says about the wallet
ViewResult(p) == <<result[p].kind, result[p].value>>

\* equal results of views between which nothing was committed
ViewsAgree ==
    /\ \A p \in Procs :
          (IsView(p) /\ commits[req[p].UserID] = startCommits[p]) =>
              LET row == wallets[req[p].UserID] IN
              ViewResult(p) = IF row.present THEN <<"success", row.balance>>
                              ELSE <<"nil", 0>>
    /\ \A p, q \in Procs :
          ( /\ IsView(p) /\ IsView(q)
            /\ req[p].UserID = req[q].UserID
            /\ startCommits[p] = startCommits[q] )
          => ViewResult(p) = ViewResult(q)

\* C17: GetWalletByUserID is a pure read: its step changes no wallet, no log
\* entry and nothing else in the database, whether it returns or fails, and
\* two calls for one user between which no mutation of the user was
\* committed return the same presence and the same balance, that of the
\* committed wallet.
C17_ViewIsPure ==
    [][ /\ \A p \in Procs :
              (StepOf(p) /\ req'[p].op = "view") =>
                  UNCHANGED <<dbVars, txVars, commits, net>>
        /\ ViewsAgree'
      ]_vars

\* two views of one user made after a mutation of the user was committed
\* returned the same balance
C17_Witness ==
    \E p, q \in Procs :
        /\ p # q /\ IsView(p) /\ IsView(q)
        /\ req[p].UserID = req[q].UserID
        /\ startCommits[p] = startCommits[q]
        /\ startCommits[p] > 0
        /\ result[p].kind = "success"
        /\ result[p].value = result[q].value
        /\ result[p].value = wallets[req[p].UserID].balance

\* ------------------------------------------------------------------ C18
\* the handler has finished with the request or handed it to the service
Handled == http.pc \in {"service", "sent"} /\ http.locals # NoLocals

\* the user id the request is aimed at: the path parameter of a view or a
\* history, the user_id of the body of an exchange or a spend
TargetUserID ==
    IF http.route \in PathRoutes THEN Atoi(http.param).value
    ELSE http.body.UserID

\* a request that passes the validation of its handler's documentation: a
\* positive numeric target, and for a POST a body with a positive amount
WellFormed ==
    /\ TargetUserID > 0
    /\ http.route \in PathRoutes => Atoi(http.param).ok
    /\ http.route \notin PathRoutes =>
           (http.body.parses /\ http.body.Amount > 0)

\* C18: a well-formed request whose authenticated user id differs from its
\* target user id and whose role is not "admin" is answered 403 Forbidden and
\* the wallet service is never called for it.
C18_ForbiddenNeverServed ==
    ( /\ Handled /\ WellFormed
      /\ http.locals.user_id # TargetUserID
      /\ http.locals.user_role # "admin" )
    => /\ http.pc = "sent"
       /\ http.status = StatusForbidden
       /\ http.call = NoCall

\* ------------------------------------------------------------------ C19
\* C19 as stated: rate-not-found, wallet-not-found, insufficient-funds and
\* the wallet-creation conflict are answered with a 4xx status, every other
\* failure of the service with 500 and the text "Internal server error".
C19_AsStated ==
    (http.pc = "sent" /\ http.ret.err # "none") =>
        IF http.ret.err \in {"exchange rate not found", "wallet not found",
                             "insufficient funds", "unique violation"}
        THEN http.status \in 400..499
        ELSE /\ http.status = StatusInternalServerError
             /\ http.error = "Internal server error"

\* C19: rate-not-found from Exchange and wallet-not-found and
\* insufficient-funds from Spend are answered 400 with the text of the
\* error; every other failure of the wallet service, the wallet-creation
\* conflict of Exchange included, is answered 500 with the fixed text
\* "Internal server error" and no detail of the error.
C19_ErrorMapping ==
    (http.pc = "sent" /\ http.ret.err # "none") =>
        IF \/ /\ http.call.op = TransactionExchange
              /\ http.ret.err = "exchange rate not found"
           \/ /\ http.call.op = TransactionSpend
              /\ http.ret.err \in {"wallet not found", "insufficient funds"}
        THEN /\ http.status = StatusBadRequest
             /\ http.error = http.ret.err
        ELSE /\ http.status = StatusInternalServerError
             /\ http.error = "Internal server error"

\* the wallet-creation conflict of an Exchange was answered 500
C19_Witness ==
    /\ http.pc = "sent"
    /\ http.call.op = TransactionExchange
    /\ http.ret.err = "unique violation"
    /\ http.status = StatusInternalServerError
    /\ http.error = "Internal server error"

\* ------------------------------------------------------------------ C20
\* C20: a request whose X-User-Id header is present but not a number, with
\* the email and role headers present, is answered 400 Bad Request by
\* AuthMiddleware and the next handler is not invoked.
C20_BadRequestOnBadUserId ==
    ( /\ http.pc \notin {"none", "auth"}
      /\ http.XUserId # "" /\ ~Atoi(http.XUserId).ok
      /\ http.XUserEmail # "" /\ http.XUserRole # "" )
    => /\ http.pc = "sent"
       /\ http.status = StatusBadRequest
       /\ http.locals = NoLocals
       /\ http.call = NoCall

\* ------------------------------------------------------------------ C21
\* C21: every entry returned by GetWalletLogs has a non-negative
\* original_amount, the magnitude of the stored amount: the entry of a spend
\* of 50 has original_amount 50 and converted_amount -50.
C21_OriginalAmountIsMagnitude ==
    \A p \in Procs :
        (IsHistory(p) /\ Succeeded(p)) =>
            \A i \in 1..Len(result[p].entries) :
                LET e == result[p].entries[i] IN
                /\ e.OriginalAmount >= 0
                /\ e.Operation = TransactionSpend =>
                      /\ e.ConvertedAmount < 0
                      /\ e.OriginalAmount = -e.ConvertedAmount

\* ------------------------------------------------------------------ C22
\* the step in which the call of p commits and returns success
Commits(p) == pc[p] = "commit" /\ pc'[p] = "done" /\ result'[p].kind = "success"

\* C22: the log entry written by a successful Exchange carries the source
\* amount and the platform amount, both positive, the game id and the token
\* type of the request, and as its source the source tag of the request.
C22_ExchangeLogEntry ==
    [][ \A p \in Procs :
          (IsExchange(p) /\ Commits(p)) =>
              /\ Len(logs') = Len(logs) + 1
              /\ LET l == logs'[Len(logs')] IN
                    /\ l.user_id = req[p].UserID
                    /\ l.amount = req[p].Amount /\ l.amount > 0
                    /\ l.platform_amount = Round2(Credit(req[p]))
                    /\ l.platform_amount > 0
                    /\ l.game_id = req[p].GameID
                    /\ l.token_type = req[p].TokenType
                    /\ l.source = req[p].Tag
      ]_vars

\* ------------------------------------------------------------------ C23
\* a row has the shape of an entry of an Exchange
ExchangeShaped(l) ==
    /\ l.amount > 0 /\ l.platform_amount > 0
    /\ l.game_id # NULL /\ l.token_type # NULL

\* a row has the shape of an entry of a Spend
SpendShaped(l) ==
    /\ l.amount < 0 /\ l.platform_amount = l.amount
    /\ l.game_id = NULL /\ l.token_type = NULL
    /\ l.source \in Reasons /\ l.reference_id \in ReferenceIDs

Rejects(p) ==
    /\ IsSpend(p) /\ pc[p] # "done" /\ pc'[p] = "done"
    /\ result'[p].err = "insufficient funds"

\* C24 as stated: in Spend the rejection for insufficient funds is produced
\* by the conditional debit update affecting zero rows, not by comparing
\* the amount with the balance returned by the lock-read.
C24_AsStated ==
    [][ \A p \in Procs :
          Rejects(p) => result'[p].kind = "error_update_wallet"
      ]_vars

\* C24: in Spend the rejection for insufficient funds is produced by the
\* comparison of the amount with the balance returned by the lock-read,
\* before the conditional debit update is issued: the rejected call read a
\* balance below its amount under the lock and made no write.
C24_RejectedByBalanceCheck ==
    [][ \A p \in Procs :
          Rejects(p) =>
              /\ pc[p] = "debit"
              /\ result'[p].kind = "error_insufficient_funds"
              /\ wallet[p].present
              /\ wallet[p].balance < req[p].Amount
              /\ lock[req[p].UserID] = p
              /\ txWallet[p] = NoWallet /\ newWallet[p] = NoWallet
      ]_vars

\* a Spend was rejected by the balance check after another call had changed
\* the balance of the wallet
C24_Witness ==
    \E p \in Procs :
        /\ InsufficientFunds(p) /\ IsSpend(p)
        /\ result[p].kind = "error_insufficient_funds"
        /\ wallet[p].balance < req[p].Amount
        /\ wallet[p] # startWallet[p]

\* ------------------------------------------------------------------ C27
\* C27: within Spend, once the lock-read has returned a wallet whose balance
\* covers the amount, the conditional debit of the same transaction affects
\* exactly one row: between the lock-read and the debit the row the
\* transaction sees is the row it read, and the "insufficient funds"
\* outcome of the repository is never returned by a Spend.
C27_DebitAlwaysApplies ==
    /\ \A p \in Procs :
          (IsSpend(p) /\ pc[p] = "debit") =>
              /\ wallet[p].present
              /\ Visible(p, req[p].UserID) = wallet[p]
              /\ lock[req[p].UserID] = p
    /\ \A p \in Procs :
          ~(Done(p) /\ IsSpend(p) /\ result[p].kind = "error_update_wallet"
                    /\ result[p].err = "insufficient funds")
    /\ \A p \in Procs :
          (IsSpend(p) /\ pc[p] \in {"log", "commit"}) =>
              /\ Covers(wallet[p].balance, req[p].Amount)
              /\ newWallet[p] = Wallet(wallet[p].id,
                                       wallet[p].balance - req[p].Amount)

\* a Spend made its debit after waiting for another transaction on the
\* same wallet: it began before the other did and debited the balance the
\* other had committed
C27_Witness ==
    \E p, q \in Procs :
        /\ p # q /\ IsSpend(p) /\ pc[p] = "log"
        /\ Succeeded(q) /\ req[q].UserID = req[p].UserID
        /\ txStart[p] < txStart[q]
        /\ wallet[p] # startWallet[p]
        /\ Covers(wallet[p].balance, req[p].Amount)

\* ------------------------------------------------------------------ C25
\* the sum of the platform_amount fields of the first n committed log
\* entries that belong to user u
RECURSIVE SumPlatformAmount(_, _)
SumPlatformAmount(u, n) ==
    IF n = 0 THEN 0
    ELSE SumPlatformAmount(u, n - 1)
         + (IF logs[n].user_id = u THEN logs[n].platform_amount ELSE 0)

InCall(p) == pc[p] \notin {"idle", "done"}

\* the transaction of p is over: no uncommitted write and no row lock
TxClosed(p) ==
    /\ txWallet[p] = NoWallet /\ txLog[p] = NoLog
    /\ \A u \in Users : lock[u] # p

\* C26: under any interleaving of concurrent Exchange and Spend calls, the
\* database eventually serving every statement, every call eventually
\* returns, and the transaction of a call that has returned is closed, by
\* commit or by rollback, with its row lock released: no transaction stays
\* open and no waiter waits forever.
C26_EveryCallReturns ==
    /\ \A p \in Procs : [](Free(p) => TxClosed(p))
    /\ \A p \in Procs : InCall(p) ~> Done(p)

\* a call that had to wait for the row lock of another transaction has
\* returned: it began first and read the wallet the other had committed,
\* and the other call had been rolled back or committed before
C26_Witness ==
    \E p, q \in Procs :
        /\ p # q /\ Done(p) /\ Done(q)
        /\ req[p].UserID = req[q].UserID
        /\ txStart[p] > 0 /\ txStart[p] < txStart[q]
        /\ Succeeded(q) /\ Succeeded(p)
        /\ wallet[p] # startWallet[p]
        /\ TxClosed(p) /\ TxClosed(q)

\* ------------------------------------------------------------------ C28
\* the step in which p returns from a GetWalletByUserID that did not fail
ViewReturns(p) ==
    /\ StepOf(p) /\ req'[p].op = "view" /\ result'[p].err = "none"

\* an open transaction has written a wallets row of user u
Dirty(q, u) == req[q].UserID = u /\ InCall(q) /\ txWallet[q].present

\* C28: a GetWalletByUserID that runs while Exchange or Spend transactions
\* on the same wallet are open returns only a committed balance, the one
\* before or after a whole transaction (the sum of the committed credits
\* and debits of the user): never a balance written by an open transaction,
\* which may yet roll back, and no wallet when the Exchange creating it has
\* not committed.
C28_ViewReadsCommitted ==
    [][ \A p \in Procs :
          ViewReturns(p) =>
              LET u == req'[p].UserID
                  r == result'[p] IN
              /\ r.kind \in {"success", "nil"}
              /\ r.kind = "success" =>
                    /\ wallets[u].present
                    /\ r.value = wallets[u].balance
                    /\ r.value = net[u]
              /\ r.kind = "nil" => (~wallets[u].present /\ net[u] = 0)
              /\ \A q \in Procs :
                    Dirty(q, u) =>
                        /\ r.kind = "success" => r.value # txWallet[q].balance
                        /\ wallets[u].present <=> r.kind = "success"
      ]_vars

\* a view made during the Exchange that creates the wallet of the user found
\* no wallet, and the Exchange, its wallet written, then failed at its
\* commit: the wallet the view did not report never existed
C28_Witness ==
    \E p, q \in Procs :
        /\ IsView(p) /\ result[p].kind = "nil"
        /\ IsExchange(q) /\ req[q].UserID = req[p].UserID
        /\ Done(q) /\ result[q].kind = "error_commit"
        /\ newWallet[q].present
        /\ startCommits[p] = commits[req[p].UserID]
        /\ ~wallets[req[p].UserID].present

\* ------------------------------------------------------------------ C29
\* the ids of the wallets rows of user u, committed or written by an open
\* transaction
WalletRowIDs(u) ==
    (IF wallets[u].present THEN {wallets[u].id} ELSE {})
    \cup {txWallet[p].id : p \in {q \in Procs : /\ req[q].UserID = u
                                                /\ txWallet[q].present}}

\* C29: in every reachable state there is at most one wallet per user id,
\* counting the rows open transactions have written, also after concurrent
\* first Exchanges of one new user; no two users share a wallet id; and an
\* Exchange whose lock-read found a wallet finds that same wallet when it
\* updates the balance: the update never reports the wallet missing.
C29_OneWalletPerUser ==
    /\ \A u \in Users : Cardinality(WalletRowIDs(u)) <= 1
    /\ \A u, v \in Users :
          u # v => WalletRowIDs(u) \cap WalletRowIDs(v) = {}
    /\ \A p \in Procs :
          (IsExchange(p) /\ pc[p] = "update") =>
              /\ wallet[p].present
              /\ Visible(p, req[p].UserID) = wallet[p]
    /\ \A p \in Procs :
          (IsExchange(p) /\ wallet[p].present
           /\ pc[p] \in {"log", "commit"}) =>
              /\ newWallet[p].present
              /\ newWallet[p].id = wallet[p].id
    /\ \A p \in Procs : ~(Done(p) /\ result[p].kind = "panic")

\* two first Exchanges of one new user overlapped: one created the wallet,
\* the other met the unique violation, and the user has the one wallet
C29_Witness ==
    \E p, q \in Procs : \E u \in Users :
        /\ p # q /\ IsExchange(p) /\ IsExchange(q)
        /\ req[p].UserID = u /\ req[q].UserID = u
        /\ wallet[p] = NoWallet /\ wallet[q] = NoWallet
        /\ Succeeded(p)
        /\ Done(q) /\ result[q].err = "unique violation"
        /\ WalletRowIDs(u) = {newWallet[p].id}

\* ------------------------------------------------------------------ C30
\* C30: LoggingMiddleware logs each request and returns the result of the
\* downstream handler unchanged for every request, one whose handler
\* completes without an error (a nil result) included, and does not fail
\* itself: it never panics, and once the handler has returned it can log
\* the request and return.
C30_LoggingPassesThrough ==
    /\ http.mw # "panic"
    /\ http.mw = "returned" =>
          /\ Len(http.entries) = 1
          /\ http.entries[1].status = http.status
          /\ http.returned = http.err

====
